---- MODULE Spec2Model ----
(***************************************************************************)
(* The torrent scheduler of client/torrent/scheduler/scheduler.go as a     *)
(* state machine: the public API (AddTorrent, Stop), the three loops       *)
(* started by start() (event loop, listen loop, ticker loop), the worker   *)
(* goroutines (inbound handshake, inbound resolution, outbound dial,       *)
(* announce) and the event handlers run by the event loop.                 *)
(*                                                                         *)
(* scheduler.go is the only file of the package at hand.  The event loop   *)
(* (Send / Run / Stop), the handlers of the events, the connection-state   *)
(* tracker, the announce queue and the dispatcher live in other files of   *)
(* the package; they are modelled from the written specification and are  *)
(* marked "(specification)" below.                                         *)
(*                                                                         *)
(* Atomicity.  A handler runs to completion in one step: handlers never    *)
(* overlap and touch only state that no other goroutine touches while the  *)
(* loop runs.  A worker's blocking I/O and the Send that reports it are    *)
(* one step: the I/O touches only the worker's own connection.  Stop is    *)
(* split at every statement that other goroutines can observe.             *)
(*                                                                         *)
(* Result channels.  errc of an AddTorrent call is the sequence of values  *)
(* written to it; the caller is taken never to receive (the worst case     *)
(* for its writers), so a write is possible only while fewer than ChanCap  *)
(* values have been written.                                               *)
(***************************************************************************)
EXTENDS Integers, Sequences, FiniteSets, TLC

\* ---- bounds of the model -------------------------------------------------
\* MaxOps bounds the stimuli from outside the scheduler, all kinds together:
\* AddTorrent calls, Stop calls, accepted connections, accept errors and ticks.
NumTorrents == 1
NumPeers == 1
NumStoppers == 2
MaxOps == 4

\* ---- program constants ---------------------------------------------------
ChanCap == 1
NumLoops == 3

Torrents == 1..NumTorrents
Peers == 1..NumPeers
Stoppers == 1..NumStoppers

ErrSchedulerStopped == "ErrSchedulerStopped"
ErrTorrentAlreadyRegistered == "ErrTorrentAlreadyRegistered"
ErrArchive == "ErrArchive"

NoControl == [present |-> FALSE]

TickKinds == {"announceTick", "preemptionTick", "cleanupBlacklist", "emitStats"}

VARIABLES
  done,             \* s.done is closed
  listenerClosed,   \* s.listener is closed
  loopStopped,      \* the event loop was told to stop
  wg,               \* s.wg counter
  once,             \* s.once: "fresh", "running", "done"
  stopPc,           \* position of each Stop() caller
  teardowns,        \* history: how often the body of once.Do was entered
  events,           \* the event loop's inbound queue
  loopPc,           \* runEventLoop: "running", "exited"
  listenPc,         \* listenLoop: "running", "exited"
  tickerPc,         \* tickerLoop: "running", "exited"
  ops,              \* stimuli from outside so far
  torrentControls,  \* s.torrentControls: info hash -> control, or NoControl
  announceQueue,    \* s.announceQueue
  active,           \* connState: the active connections
  blacklist,        \* connState: the blacklisted (peer, info hash) pairs
  dispatched,       \* connections accepted by a dispatcher's AddConn
  conns,            \* every connection accepted or dialed, by id
  adds,             \* every AddTorrent call, by id, with its result channel
  announcing        \* announce goroutines in flight, per info hash

vars == <<done, listenerClosed, loopStopped, wg, once, stopPc, teardowns,
          events, loopPc, listenPc, tickerPc, ops, torrentControls,
          announceQueue, active, blacklist, dispatched, conns, adds,
          announcing>>

stopVars == <<done, listenerClosed, loopStopped, once, stopPc, teardowns>>
loopVars == <<loopPc, listenPc, tickerPc, wg>>
stateVars == <<torrentControls, announceQueue, active, blacklist, dispatched>>

ConnIds == 1..Len(conns)
AddIds == 1..Len(adds)

\* ---- construction: New() and start() --------------------------------------
Init ==
  /\ done = FALSE
  /\ listenerClosed = FALSE
  /\ loopStopped = FALSE
  /\ wg = NumLoops
  /\ once = "fresh"
  /\ stopPc = [s \in Stoppers |-> "idle"]
  /\ teardowns = 0
  /\ events = <<>>
  /\ loopPc = "running"
  /\ listenPc = "running"
  /\ tickerPc = "running"
  /\ ops = 0
  /\ torrentControls = [t \in Torrents |-> NoControl]
  /\ announceQueue = <<>>
  /\ active = {}
  /\ blacklist = {}
  /\ dispatched = {}
  /\ conns = <<>>
  /\ adds = <<>>
  /\ announcing = [t \in Torrents |-> 0]

\* ---- event loop: Send (specification) --------------------------------------
\* Send returns false once the loop was told to stop, else it enqueues.
SendOK == ~loopStopped

Send(e) == IF SendOK THEN Append(events, e) ELSE events

\* ---- result channels ------------------------------------------------------
CanWrite(a) == Len(adds[a].errc) < ChanCap

Write(as, a, v) == [as EXCEPT ![a].errc = Append(@, v)]

\* ---- AddTorrent -----------------------------------------------------------
\* errc := make(chan error, 1); GetTorrent; on error errc <- err and return.
AddTorrentCallSendsAfterError(t, found) ==
  /\ ops < MaxOps
  /\ ops' = ops + 1
  /\ adds' = Append(adds, [t |-> t,
                           pc |-> "send",
                           errc |-> IF found THEN <<>> ELSE <<ErrArchive>>])
  /\ UNCHANGED <<stopVars, loopVars, stateVars, events, conns, announcing>>

AddTorrentCall(t, found) ==
  /\ ops < MaxOps
  /\ ops' = ops + 1
  /\ adds' = Append(adds, [t |-> t,
                           pc |-> IF found THEN "send" ELSE "returned",
                           errc |-> IF found THEN <<>> ELSE <<ErrArchive>>])
  /\ UNCHANGED <<stopVars, loopVars, stateVars, events, conns, announcing>>

\* if !s.eventLoop.Send(newTorrentEvent{t, errc}) { errc <- ErrSchedulerStopped }
AddTorrentSendWritesAlways(a) ==
  /\ adds[a].pc = "send"
  /\ events' = Send([type |-> "newTorrent", t |-> adds[a].t, errc |-> a])
  /\ CanWrite(a)
  /\ adds' = [Write(adds, a, ErrSchedulerStopped) EXCEPT ![a].pc = "returned"]
  /\ UNCHANGED <<ops, stopVars, loopVars, stateVars, conns, announcing>>

AddTorrentSend(a) ==
  /\ adds[a].pc = "send"
  /\ events' = Send([type |-> "newTorrent", t |-> adds[a].t, errc |-> a])
  /\ IF SendOK
       THEN adds' = [adds EXCEPT ![a].pc = "returned"]
       ELSE /\ CanWrite(a)
            /\ adds' = [Write(adds, a, ErrSchedulerStopped) EXCEPT ![a].pc = "returned"]
  /\ UNCHANGED <<ops, stopVars, loopVars, stateVars, conns, announcing>>

\* ---- Stop -----------------------------------------------------------------
\* s.once.Do(f): the first caller runs f, every other caller waits until f
\* has returned.  The callers are interchangeable: they call in the order of
\* their numbers.
CallsNext(s) == stopPc[s] = "idle" /\ \A r \in Stoppers : r < s => stopPc[r] # "idle"

StopCallWithoutOnce(s) ==
  /\ ops < MaxOps
  /\ ops' = ops + 1
  /\ CallsNext(s)
  /\ once' = "running"
  /\ teardowns' = teardowns + 1
  /\ stopPc' = [stopPc EXCEPT ![s] = "closeDone"]
  /\ UNCHANGED <<done, listenerClosed, loopStopped, loopVars, stateVars,
                 events, conns, adds, announcing>>

StopCall(s) ==
  /\ ops < MaxOps
  /\ ops' = ops + 1
  /\ CallsNext(s)
  /\ IF once = "fresh"
       THEN /\ once' = "running"
            /\ teardowns' = teardowns + 1
            /\ stopPc' = [stopPc EXCEPT ![s] = "closeDone"]
       ELSE /\ stopPc' = [stopPc EXCEPT ![s] = "waitOnce"]
            /\ UNCHANGED <<once, teardowns>>
  /\ UNCHANGED <<done, listenerClosed, loopStopped, loopVars, stateVars,
                 events, conns, adds, announcing>>

\* close(s.done)
StopCloseDone(s) ==
  /\ stopPc[s] = "closeDone"
  /\ done' = TRUE
  /\ stopPc' = [stopPc EXCEPT ![s] = "closeListener"]
  /\ UNCHANGED <<ops, listenerClosed, loopStopped, once, teardowns, loopVars,
                 stateVars, events, conns, adds, announcing>>

\* s.listener.Close()
StopCloseListener(s) ==
  /\ stopPc[s] = "closeListener"
  /\ listenerClosed' = TRUE
  /\ stopPc' = [stopPc EXCEPT ![s] = "loopStop"]
  /\ UNCHANGED <<ops, done, loopStopped, once, teardowns, loopVars, stateVars,
                 events, conns, adds, announcing>>

\* s.eventLoop.Stop()
StopEventLoop(s) ==
  /\ stopPc[s] = "loopStop"
  /\ loopStopped' = TRUE
  /\ stopPc' = [stopPc EXCEPT ![s] = "wait"]
  /\ UNCHANGED <<ops, done, listenerClosed, once, teardowns, loopVars, stateVars,
                 events, conns, adds, announcing>>

\* s.wg.Wait()
StopWaitNoWait(s) ==
  /\ stopPc[s] = "wait"
  /\ stopPc' = [stopPc EXCEPT ![s] = "closeConns"]
  /\ UNCHANGED <<ops, done, listenerClosed, loopStopped, once, teardowns, loopVars,
                 stateVars, events, conns, adds, announcing>>

StopWait(s) ==
  /\ stopPc[s] = "wait"
  /\ wg = 0
  /\ stopPc' = [stopPc EXCEPT ![s] = "closeConns"]
  /\ UNCHANGED <<ops, done, listenerClosed, loopStopped, once, teardowns, loopVars,
                 stateVars, events, conns, adds, announcing>>

\* for _, c := range s.connState.ActiveConns() { c.Close() }
StopCloseConnsSkips(s) ==
  /\ stopPc[s] = "closeConns"
  /\ stopPc' = [stopPc EXCEPT ![s] = "notify"]
  /\ UNCHANGED <<ops, done, listenerClosed, loopStopped, once, teardowns, loopVars,
                 stateVars, events, conns, adds, announcing>>

StopCloseConnsDropsActive(s) ==
  /\ stopPc[s] = "closeConns"
  /\ conns' = [c \in ConnIds |->
                 IF c \in active THEN [conns[c] EXCEPT !.open = FALSE] ELSE conns[c]]
  /\ active' = {}
  /\ stopPc' = [stopPc EXCEPT ![s] = "notify"]
  /\ UNCHANGED <<ops, done, listenerClosed, loopStopped, once, teardowns, loopVars,
                 torrentControls, announceQueue, blacklist, dispatched,
                 events, adds, announcing>>

StopCloseConns(s) ==
  /\ stopPc[s] = "closeConns"
  /\ conns' = [c \in ConnIds |->
                 IF c \in active THEN [conns[c] EXCEPT !.open = FALSE] ELSE conns[c]]
  /\ stopPc' = [stopPc EXCEPT ![s] = "notify"]
  /\ UNCHANGED <<ops, done, listenerClosed, loopStopped, once, teardowns, loopVars,
                 stateVars, events, adds, announcing>>

\* The channels Stop writes to: every errc of every control's Errors.
RECURSIVE Count(_, _)
Count(seq, x) ==
  IF seq = <<>> THEN 0
  ELSE (IF Head(seq) = x THEN 1 ELSE 0) + Count(Tail(seq), x)

Pending(a) ==
  LET RECURSIVE Sum(_)
      Sum(ts) == IF ts = {} THEN 0
                 ELSE LET t == CHOOSE x \in ts : TRUE
                      IN (IF torrentControls[t].present
                            THEN Count(torrentControls[t].Errors, a) ELSE 0)
                         + Sum(ts \ {t})
  IN Sum(Torrents)

\* for _, ctrl := range s.torrentControls { for _, errc := range ctrl.Errors
\* { errc <- ErrSchedulerStopped } }; then once.Do returns.
\* Each write blocks while the channel is full.
StopNotify(s) ==
  /\ stopPc[s] = "notify"
  /\ \A a \in AddIds : Len(adds[a].errc) + Pending(a) <= ChanCap
  /\ adds' = [a \in AddIds |->
                IF Pending(a) > 0 THEN Write(adds, a, ErrSchedulerStopped)[a]
                ELSE adds[a]]
  /\ once' = "done"
  /\ stopPc' = [stopPc EXCEPT ![s] = "returned"]
  /\ UNCHANGED <<ops, done, listenerClosed, loopStopped, teardowns, loopVars,
                 stateVars, events, conns, announcing>>

\* a caller that found once.Do running returns when it is done
StopOnceReturn(s) ==
  /\ stopPc[s] = "waitOnce"
  /\ once = "done"
  /\ stopPc' = [stopPc EXCEPT ![s] = "returned"]
  /\ UNCHANGED <<ops, done, listenerClosed, loopStopped, once, teardowns, loopVars,
                 stateVars, events, conns, adds, announcing>>

\* ---- runEventLoop ----------------------------------------------------------
\* Run returns once the loop was told to stop (specification); then wg.Done().
LoopExitWithoutDone ==
  /\ loopPc = "running"
  /\ loopStopped
  /\ loopPc' = "exited"
  /\ UNCHANGED <<ops, stopVars, listenPc, tickerPc, wg, stateVars, events, conns,
                 adds, announcing>>

LoopExit ==
  /\ loopPc = "running"
  /\ loopStopped
  /\ loopPc' = "exited"
  /\ wg' = wg - 1
  /\ UNCHANGED <<ops, stopVars, listenPc, tickerPc, stateVars, events, conns,
                 adds, announcing>>

\* Run takes the next event in arrival order while it was not told to stop
\* (specification).
Applying(type) ==
  /\ loopPc = "running"
  /\ ~loopStopped
  /\ events # <<>>
  /\ Head(events).type = type
  /\ events' = Tail(events)

\* ---- listenLoop -------------------------------------------------------------
\* nc, err := s.listener.Accept(); go s.handshakeIncomingConn(nc).  The remote
\* peer p will present a handshake for info hash t.
ListenAccept(p, t) ==
  /\ ops < MaxOps
  /\ ops' = ops + 1
  /\ listenPc = "running"
  /\ ~listenerClosed
  /\ conns' = Append(conns, [peer |-> p, t |-> t, dir |-> "in",
                             st |-> "handshaking", open |-> TRUE])
  /\ UNCHANGED <<stopVars, loopVars, stateVars, events, adds, announcing>>

\* Accept fails, because the listener was closed or for another reason (a
\* stimulus from outside): break, wg.Done().
ListenExit ==
  /\ listenPc = "running"
  /\ IF listenerClosed THEN UNCHANGED ops
     ELSE ops < MaxOps /\ ops' = ops + 1
  /\ listenPc' = "exited"
  /\ wg' = wg - 1
  /\ UNCHANGED <<stopVars, loopPc, tickerPc, stateVars, events, conns,
                 adds, announcing>>

\* ---- tickerLoop -------------------------------------------------------------
\* case <-s.xTicker.C: s.eventLoop.Send(xEvent{})
TickerTick(kind) ==
  /\ ops < MaxOps
  /\ ops' = ops + 1
  /\ tickerPc = "running"
  /\ events' = Send([type |-> kind])
  /\ UNCHANGED <<stopVars, loopPc, listenPc, tickerPc, wg, stateVars, conns,
                 adds, announcing>>

\* case <-s.done: s.wg.Done(); return
TickerExit ==
  /\ tickerPc = "running"
  /\ done
  /\ tickerPc' = "exited"
  /\ wg' = wg - 1
  /\ UNCHANGED <<ops, stopVars, loopPc, listenPc, stateVars, events, conns,
                 adds, announcing>>

\* ---- inbound handshake workers ------------------------------------------------
\* handshakeIncomingConn: receiveHandshake fails -> nc.Close(), no event;
\* else Send(incomingHandshakeEvent{nc, h}), its result ignored.
HandshakeIncomingConn(c, received) ==
  /\ conns[c].st = "handshaking"
  /\ IF received
       THEN /\ events' = Send([type |-> "incomingHandshake", c |-> c])
            /\ conns' = [conns EXCEPT ![c].st = "sent"]
       ELSE /\ conns' = [conns EXCEPT ![c].st = "failed", ![c].open = FALSE]
            /\ UNCHANGED events
  /\ UNCHANGED <<ops, stopVars, loopVars, stateVars, adds, announcing>>

InitOutcomes == {"ok", "archiveError", "reciprocateError"}

\* doInitIncomingConn: the connection as it leaves the call.  Both error
\* returns close nc first.
DoInitIncomingConnLeavesOpen(conn, outcome) ==
  IF outcome = "ok" THEN [conn EXCEPT !.st = "sent"]
  ELSE [conn EXCEPT !.st = "failed"]

DoInitIncomingConn(conn, outcome) ==
  IF outcome = "ok" THEN [conn EXCEPT !.st = "sent"]
  ELSE [conn EXCEPT !.st = "failed", !.open = FALSE]

\* The failure event names the peer and the info hash only; conn records which
\* connection it stands for (0: none was ever opened) and is not read by the
\* handler.
FailedHandshakeEvent(p, t, c) ==
  [type |-> "failedHandshake", peer |-> p, t |-> t, conn |-> c]

\* initIncomingConn: one event, by the outcome of doInitIncomingConn.
InitIncomingConnSilentOnFailure(c, outcome) ==
  /\ conns[c].st = "initing"
  /\ conns' = [conns EXCEPT ![c] = DoInitIncomingConn(conns[c], outcome)]
  /\ events' = IF outcome = "ok"
                 THEN Send([type |-> "incomingConn", c |-> c, t |-> conns[c].t])
                 ELSE events
  /\ UNCHANGED <<ops, stopVars, loopVars, stateVars, adds, announcing>>

InitIncomingConn(c, outcome) ==
  /\ conns[c].st = "initing"
  /\ conns' = [conns EXCEPT ![c] = DoInitIncomingConn(conns[c], outcome)]
  /\ events' = Send(IF outcome = "ok"
                      THEN [type |-> "incomingConn", c |-> c, t |-> conns[c].t]
                      ELSE FailedHandshakeEvent(conns[c].peer, conns[c].t, c))
  /\ UNCHANGED <<ops, stopVars, loopVars, stateVars, adds, announcing>>

\* ---- outbound dial workers ----------------------------------------------------
DialOutcomes == {"ok", "dialError", "handshakeError", "wrongPeer"}

\* doInitOutgoingConn: a failed dial opens nothing; a failed handshake closes
\* nc; a handshake with another peer than the target closes c.
DoInitOutgoingConnLeavesOpen(conn, outcome) ==
  CASE outcome = "ok" -> [conn EXCEPT !.st = "sent", !.open = TRUE]
    [] outcome = "dialError" -> [conn EXCEPT !.st = "failed"]
    [] OTHER -> [conn EXCEPT !.st = "failed", !.open = TRUE]

DoInitOutgoingConn(conn, outcome) ==
  CASE outcome = "ok" -> [conn EXCEPT !.st = "sent", !.open = TRUE]
    [] OTHER -> [conn EXCEPT !.st = "failed", !.open = FALSE]

\* initOutgoingConn: one event, by the outcome of doInitOutgoingConn.
InitOutgoingConn(c, outcome) ==
  /\ conns[c].st = "dialing"
  /\ conns' = [conns EXCEPT ![c] = DoInitOutgoingConn(conns[c], outcome)]
  /\ events' = Send(IF outcome = "ok"
                      THEN [type |-> "outgoingConn", c |-> c, t |-> conns[c].t]
                      ELSE FailedHandshakeEvent(conns[c].peer, conns[c].t,
                                                IF outcome = "dialError" THEN 0 ELSE c))
  /\ UNCHANGED <<ops, stopVars, loopVars, stateVars, adds, announcing>>

\* ---- announce workers -----------------------------------------------------------
\* doAnnounce: nil error and the tracker's peers, or an error (request failed,
\* status not 200, body not decodable) and no peers.
\* announce builds announceFailureEvent{d} on an error, else
\* announceResponseEvent{infoHash, peers}.  failed records the outcome of
\* doAnnounce the event stands for and is not read by the handlers.
AnnounceEventIgnoresError(t, ok, peers) ==
  [type |-> "announceResponse", t |-> t, peers |-> peers, failed |-> ~ok]

AnnounceEvent(t, ok, peers) ==
  IF ok THEN [type |-> "announceResponse", t |-> t, peers |-> peers, failed |-> FALSE]
  ELSE [type |-> "announceFailure", t |-> t, failed |-> TRUE]

\* announce: one event, by the outcome of doAnnounce.
Announce(t, ok, peers) ==
  /\ announcing[t] > 0
  /\ announcing' = [announcing EXCEPT ![t] = @ - 1]
  /\ events' = Send(AnnounceEvent(t, ok, peers))
  /\ UNCHANGED <<ops, stopVars, loopVars, stateVars, conns, adds>>

\* ---- connection-state tracker (specification) -----------------------------------
Pair(c) == <<conns[c].peer, conns[c].t>>

Connected(p, t) == \E c \in active : Pair(c) = <<p, t>>

\* MovePendingToActive fails on a duplicate (peer, info hash) and on a
\* blacklisted peer.
CanMoveToActive(c) == ~Connected(conns[c].peer, conns[c].t) /\ Pair(c) \notin blacklist

\* ---- addIncomingConn / addOutgoingConn -------------------------------------------
\* newTorrentControl(d): a control with no pending channels, not complete.
NewTorrentControl == [present |-> TRUE, Errors |-> <<>>, Complete |-> FALSE]

\* addConnOK: whether the dispatcher's AddConn accepts the connection.
AddIncomingConnKeepsRejectedOpen(c, t, addConnOK) ==
  IF ~CanMoveToActive(c)
    THEN /\ conns' = [conns EXCEPT ![c].st = "applied"]
         /\ UNCHANGED <<torrentControls, active, dispatched>>
    ELSE /\ conns' = [conns EXCEPT ![c].st = "applied"]
         /\ active' = active \cup {c}
         /\ torrentControls' = IF torrentControls[t].present THEN torrentControls
                               ELSE [torrentControls EXCEPT ![t] = NewTorrentControl]
         /\ dispatched' = IF addConnOK THEN dispatched \cup {c} ELSE dispatched

AddIncomingConnReplacesControl(c, t, addConnOK) ==
  IF ~CanMoveToActive(c)
    THEN /\ conns' = [conns EXCEPT ![c].st = "applied", ![c].open = FALSE]
         /\ UNCHANGED <<torrentControls, active, dispatched>>
    ELSE /\ conns' = [conns EXCEPT ![c].st = "applied"]
         /\ active' = active \cup {c}
         /\ torrentControls' = [torrentControls EXCEPT ![t] = NewTorrentControl]
         /\ dispatched' = IF addConnOK THEN dispatched \cup {c} ELSE dispatched

AddIncomingConn(c, t, addConnOK) ==
  IF ~CanMoveToActive(c)
    THEN /\ conns' = [conns EXCEPT ![c].st = "applied", ![c].open = FALSE]
         /\ UNCHANGED <<torrentControls, active, dispatched>>
    ELSE /\ conns' = [conns EXCEPT ![c].st = "applied"]
         /\ active' = active \cup {c}
         /\ torrentControls' = IF torrentControls[t].present THEN torrentControls
                               ELSE [torrentControls EXCEPT ![t] = NewTorrentControl]
         /\ dispatched' = IF addConnOK THEN dispatched \cup {c} ELSE dispatched

AddOutgoingConnKeepsRejectedOpen(c, t, addConnOK) ==
  IF ~CanMoveToActive(c)
    THEN /\ conns' = [conns EXCEPT ![c].st = "applied"]
         /\ UNCHANGED <<torrentControls, active, dispatched>>
    ELSE /\ conns' = [conns EXCEPT ![c].st = "applied"]
         /\ active' = active \cup {c}
         /\ UNCHANGED torrentControls
         /\ dispatched' = IF torrentControls[t].present /\ addConnOK
                            THEN dispatched \cup {c} ELSE dispatched

AddOutgoingConn(c, t, addConnOK) ==
  IF ~CanMoveToActive(c)
    THEN /\ conns' = [conns EXCEPT ![c].st = "applied", ![c].open = FALSE]
         /\ UNCHANGED <<torrentControls, active, dispatched>>
    ELSE /\ conns' = [conns EXCEPT ![c].st = "applied"]
         /\ active' = active \cup {c}
         /\ UNCHANGED torrentControls
         /\ dispatched' = IF torrentControls[t].present /\ addConnOK
                            THEN dispatched \cup {c} ELSE dispatched

\* ---- event handlers (specification) ------------------------------------------------
\* newTorrentEvent: an entry exists -> ErrTorrentAlreadyRegistered on the
\* channel; else create and register the control, keep the channel pending,
\* and queue the dispatcher for announcing.
ApplyNewTorrent ==
  /\ Applying("newTorrent")
  /\ LET t == Head(events).t
         a == Head(events).errc
     IN IF torrentControls[t].present
          THEN /\ CanWrite(a)
               /\ adds' = Write(adds, a, ErrTorrentAlreadyRegistered)
               /\ UNCHANGED <<torrentControls, announceQueue>>
          ELSE /\ torrentControls' = [torrentControls EXCEPT ![t] =
                                        [NewTorrentControl EXCEPT !.Errors = <<a>>]]
               /\ announceQueue' = Append(announceQueue, t)
               /\ UNCHANGED adds
  /\ UNCHANGED <<ops, stopVars, loopVars, active, blacklist, dispatched, conns, announcing>>

\* incomingHandshakeEvent: go s.initIncomingConn(nc, handshake)
ApplyIncomingHandshake ==
  /\ Applying("incomingHandshake")
  /\ conns' = [conns EXCEPT ![Head(events).c].st = "initing"]
  /\ UNCHANGED <<ops, stopVars, loopVars, stateVars, adds, announcing>>

\* incomingConnEvent: s.addIncomingConn(c, t)
ApplyIncomingConn(addConnOK) ==
  /\ Applying("incomingConn")
  /\ AddIncomingConn(Head(events).c, Head(events).t, addConnOK)
  /\ UNCHANGED <<ops, stopVars, loopVars, announceQueue, blacklist, adds, announcing>>

\* outgoingConnEvent: s.addOutgoingConn(c, t)
ApplyOutgoingConn(addConnOK) ==
  /\ Applying("outgoingConn")
  /\ AddOutgoingConn(Head(events).c, Head(events).t, addConnOK)
  /\ UNCHANGED <<ops, stopVars, loopVars, announceQueue, blacklist, adds, announcing>>

\* failedHandshakeEvent: the tracker records the failure; whether the record
\* blacklists the peer is the tracker's policy.
ApplyFailedHandshake(blacklists) ==
  /\ Applying("failedHandshake")
  /\ blacklist' = IF blacklists
                    THEN blacklist \cup {<<Head(events).peer, Head(events).t>>}
                    ELSE blacklist
  /\ UNCHANGED <<ops, stopVars, loopVars, torrentControls, announceQueue, active,
                 dispatched, conns, adds, announcing>>

\* cleanupBlacklistEvent: the tracker expires the stale entries.
ApplyCleanupBlacklist(stale) ==
  /\ Applying("cleanupBlacklist")
  /\ blacklist' = blacklist \ stale
  /\ UNCHANGED <<ops, stopVars, loopVars, torrentControls, announceQueue, active,
                 dispatched, conns, adds, announcing>>

\* announceTickEvent: every queued dispatcher is announced by a goroutine of
\* its own and goes to the back of the queue.
RECURSIVE Rotate(_, _)
Rotate(q, n) == IF n = 0 \/ q = <<>> THEN q ELSE Rotate(Append(Tail(q), Head(q)), n - 1)

ApplyAnnounceTickAnnouncesArchive ==
  /\ Applying("announceTick")
  /\ announcing' = [t \in Torrents |-> announcing[t] + 1]
  /\ announceQueue' = Rotate(announceQueue, Len(announceQueue))
  /\ UNCHANGED <<ops, stopVars, loopVars, torrentControls, active, blacklist,
                 dispatched, conns, adds>>

ApplyAnnounceTick ==
  /\ Applying("announceTick")
  /\ announcing' = [t \in Torrents |-> announcing[t] + Count(announceQueue, t)]
  /\ announceQueue' = Rotate(announceQueue, Len(announceQueue))
  /\ UNCHANGED <<ops, stopVars, loopVars, torrentControls, active, blacklist,
                 dispatched, conns, adds>>

\* announceResponseEvent: one dial goroutine for every returned peer that is
\* not connected for the torrent.
RECURSIVE Dials(_, _)
Dials(peers, t) ==
  IF peers = {} THEN <<>>
  ELSE LET p == CHOOSE x \in peers : \A y \in peers : x <= y
       IN (IF Connected(p, t) THEN <<>>
           ELSE <<[peer |-> p, t |-> t, dir |-> "out", st |-> "dialing",
                   open |-> FALSE]>>)
          \o Dials(peers \ {p}, t)

ApplyAnnounceResponse ==
  /\ Applying("announceResponse")
  /\ conns' = conns \o Dials(Head(events).peers, Head(events).t)
  /\ UNCHANGED <<ops, stopVars, loopVars, stateVars, adds, announcing>>

\* announceFailureEvent, preemptionTickEvent, emitStatsEvent: no change of the
\* scheduler's state; the torrent stays queued for the next announce tick.
ApplyWithoutEffect ==
  /\ \/ Applying("announceFailure")
     \/ Applying("preemptionTick")
     \/ Applying("emitStats")
  /\ UNCHANGED <<ops, stopVars, loopVars, stateVars, conns, adds, announcing>>

\* ---- the scheduler -------------------------------------------------------------------
Next ==
  \/ \E t \in Torrents, found \in BOOLEAN : AddTorrentCall(t, found)
  \/ \E a \in AddIds : AddTorrentSend(a)
  \/ \E s \in Stoppers : StopCall(s)
  \/ \E s \in Stoppers : StopCloseDone(s)
  \/ \E s \in Stoppers : StopCloseListener(s)
  \/ \E s \in Stoppers : StopEventLoop(s)
  \/ \E s \in Stoppers : StopWait(s)
  \/ \E s \in Stoppers : StopCloseConns(s)
  \/ \E s \in Stoppers : StopNotify(s)
  \/ \E s \in Stoppers : StopOnceReturn(s)
  \/ LoopExit
  \/ \E p \in Peers, t \in Torrents : ListenAccept(p, t)
  \/ ListenExit
  \/ \E kind \in TickKinds : TickerTick(kind)
  \/ TickerExit
  \/ \E c \in ConnIds, received \in BOOLEAN : HandshakeIncomingConn(c, received)
  \/ \E c \in ConnIds, outcome \in InitOutcomes : InitIncomingConn(c, outcome)
  \/ \E c \in ConnIds, outcome \in DialOutcomes : InitOutgoingConn(c, outcome)
  \/ \E t \in Torrents, peers \in SUBSET Peers : Announce(t, TRUE, peers)
  \/ \E t \in Torrents : Announce(t, FALSE, {})
  \/ ApplyNewTorrent
  \/ ApplyIncomingHandshake
  \/ \E addConnOK \in BOOLEAN : ApplyIncomingConn(addConnOK)
  \/ \E addConnOK \in BOOLEAN : ApplyOutgoingConn(addConnOK)
  \/ \E blacklists \in BOOLEAN : ApplyFailedHandshake(blacklists)
  \/ \E stale \in SUBSET blacklist : ApplyCleanupBlacklist(stale)
  \/ ApplyAnnounceTick
  \/ ApplyAnnounceResponse
  \/ ApplyWithoutEffect

Spec == Init /\ [][Next]_vars

\* Scheduling: every goroutine that can take its next step eventually takes
\* it.  A Stop caller proceeds through the teardown; the event-loop goroutine
\* returns from Run once told to stop; Accept returns an error once the
\* listener is closed; the ticker loop's select takes the closed done channel.
\* Calls from outside, accepts, ticks, workers and the applying of events are
\* not forced.
Fairness ==
  /\ \A s \in Stoppers :
       /\ WF_vars(StopCloseDone(s))
       /\ WF_vars(StopCloseListener(s))
       /\ WF_vars(StopEventLoop(s))
       /\ WF_vars(StopWait(s))
       /\ WF_vars(StopCloseConns(s))
       /\ WF_vars(StopNotify(s))
       /\ WF_vars(StopOnceReturn(s))
  /\ WF_vars(LoopExit)
  /\ WF_vars(ListenExit /\ listenerClosed)
  /\ WF_vars(TickerExit)

FairSpec == Init /\ [][Next]_vars /\ Fairness

\* ---- vocabulary of the properties -------------------------------------------------
StopReturned == \E s \in Stoppers : stopPc[s] = "returned"

\* the call's channel is recorded as pending in a control
Registered(a) == Pending(a) > 0

\* the call was answered with the registration conflict
Conflicted(a) == ErrTorrentAlreadyRegistered \in {adds[a].errc[i] : i \in 1..Len(adds[a].errc)}

\* the step in which the event loop applies an event of the given type
Applies(type) ==
  /\ loopPc = "running"
  /\ ~loopStopped
  /\ events # <<>>
  /\ Head(events).type = type
  /\ events' = Tail(events)

\* the closing of connections and the notification of callers in Stop has begun
TeardownStarted == once = "done" \/ \E s \in Stoppers : stopPc[s] \in {"closeConns", "notify"}

\* ---- C1 ----------------------------------------------------------------------------------
\* C1: however many callers run Stop() concurrently, the teardown sequence is
\* entered at most once, and a caller has returned only when that one teardown
\* has run to its end (done closed, listener closed, loop stopped, all three
\* loops exited, once.Do finished).
C1_TeardownOnce ==
  /\ teardowns <= 1
  /\ \A s \in Stoppers :
       stopPc[s] = "returned" =>
         /\ teardowns = 1
         /\ once = "done"
         /\ done /\ listenerClosed /\ loopStopped
         /\ wg = 0
         /\ \A r \in Stoppers : stopPc[r] \in {"idle", "waitOnce", "returned"}

\* all callers, more than one, have returned from the one teardown
C1_Witness ==
  /\ NumStoppers >= 2
  /\ \A s \in Stoppers : stopPc[s] = "returned"
  /\ teardowns = 1

\* ---- C2 ----------------------------------------------------------------------------------
\* C2: once Stop() has returned, every channel handed out by an AddTorrent
\* call that has returned and that was not resolved otherwise (archive error,
\* registration conflict) holds ErrSchedulerStopped exactly once.
ResolvedOtherwise(a) ==
  \E i \in 1..Len(adds[a].errc) : adds[a].errc[i] # ErrSchedulerStopped

C2_PendingNotifiedOnce ==
  StopReturned =>
    \A a \in AddIds :
      (adds[a].pc = "returned" /\ ~ResolvedOtherwise(a)) =>
        Count(adds[a].errc, ErrSchedulerStopped) = 1

\* ---- C3 ----------------------------------------------------------------------------------
\* C3: when the event loop applies the newTorrentEvent of an AddTorrent(t)
\* call, then, if no other call for t was applied before, the control of t is
\* registered with the call's channel pending and unwritten; otherwise the
\* channel receives ErrTorrentAlreadyRegistered and neither torrentControls
\* nor any other call's channel changes.
Applied(a) == Registered(a) \/ Conflicted(a)

C3_FirstRegistersSecondConflicts ==
  [][Applies("newTorrent") =>
       LET t == Head(events).t
           a == Head(events).errc
       IN IF \A b \in AddIds \ {a} : adds[b].t = t => ~Applied(b)
            THEN /\ torrentControls'[t].present
                 /\ torrentControls'[t].Errors = <<a>>
                 /\ adds'[a].errc = <<>>
            ELSE /\ adds'[a].errc = <<ErrTorrentAlreadyRegistered>>
                 /\ torrentControls' = torrentControls
                 /\ \A b \in AddIds \ {a} : adds'[b] = adds[b]]_vars

\* ---- C4 ----------------------------------------------------------------------------------
\* C4: no AddTorrent caller is left without an answer by shutdown: when Stop()
\* has returned and every AddTorrent call has returned, every result channel
\* holds a value.
C4_NoCallerLeftHanging ==
  (StopReturned /\ \A a \in AddIds : adds[a].pc = "returned") =>
    \A a \in AddIds : adds[a].errc # <<>>

LoopsExited == loopPc = "exited" /\ listenPc = "exited" /\ tickerPc = "exited"

C6_TeardownAfterLoops ==
  /\ [](TeardownStarted => LoopsExited /\ wg = 0)
  /\ [][TeardownStarted =>
          /\ events' = events
          /\ active' = active
          /\ \A t \in Torrents : torrentControls'[t].present = torrentControls[t].present]_vars

\* Stop is about to close an active connection while events are left in the queue
C6_Witness ==
  /\ \E s \in Stoppers : stopPc[s] = "closeConns"
  /\ active # {}
  /\ events # <<>>

\* ---- C7 ----------------------------------------------------------------------------------
Inbound == {c \in ConnIds : conns[c].dir = "in"}

\* the incomingConnEvent or outgoingConnEvent of the connection was applied
Processed(c) == conns[c].st = "applied"

\* C7 as stated: when the incomingConnEvents of two (or more) inbound
\* connections for the same (peer, torrent) were applied, exactly one of the
\* pair's inbound connections is active and every other one is closed.
C7_ExactlyOneActive ==
  \A c1, c2 \in Inbound :
    (c1 # c2 /\ Pair(c1) = Pair(c2) /\ Processed(c1) /\ Processed(c2)) =>
      /\ Cardinality({c \in Inbound \cap active : Pair(c) = Pair(c1)}) = 1
      /\ \A c \in {c1, c2} \ active : ~conns[c].open

\* C7 as amended: there is at most one active connection per (peer, torrent);
\* an applied incomingConnEvent admits its connection exactly when no
\* connection for the pair is active and the peer is not blacklisted, and
\* otherwise leaves the active set alone and closes the connection; so of two
\* inbound connections for the same pair at most one is active and every one
\* not admitted is closed.
C7_AtMostOneActive ==
  /\ [](/\ \A c1, c2 \in active : Pair(c1) = Pair(c2) => c1 = c2
        /\ \A c \in Inbound : (Processed(c) /\ c \notin active) => ~conns[c].open)
  /\ [][Applies("incomingConn") =>
          LET c == Head(events).c
          IN IF ~Connected(conns[c].peer, conns[c].t) /\ Pair(c) \notin blacklist
               THEN active' = active \cup {c} /\ conns'[c].open
               ELSE active' = active /\ ~conns'[c].open]_vars

\* two inbound connections for one pair were both applied: one is active and
\* open, the other rejected and closed
C7_Witness ==
  \E c1, c2 \in Inbound :
    /\ c1 # c2 /\ Pair(c1) = Pair(c2)
    /\ Processed(c1) /\ Processed(c2)
    /\ c1 \in active /\ conns[c1].open
    /\ c2 \notin active /\ ~conns[c2].open

\* ---- C8 ----------------------------------------------------------------------------------
\* C8: a connection whose handshake failed is closed when its worker is done
\* with it, so the connection of every failedHandshakeEvent in the queue is
\* closed, from the Send on until the event is applied.
C8_ClosedBeforeFailureEvent ==
  /\ \A c \in ConnIds : conns[c].st = "failed" => ~conns[c].open
  /\ \A i \in 1..Len(events) :
       (events[i].type = "failedHandshake" /\ events[i].conn # 0) =>
         ~conns[events[i].conn].open

\* failure events of an inbound and of an outbound handshake are queued
C8_Witness ==
  \E i, j \in 1..Len(events) :
    /\ events[i].type = "failedHandshake" /\ events[i].conn # 0
    /\ events[j].type = "failedHandshake" /\ events[j].conn # 0
    /\ conns[events[i].conn].dir = "in"
    /\ conns[events[j].conn].dir = "out"

\* ---- C9 ----------------------------------------------------------------------------------
Queued(t) == \E i \in 1..Len(announceQueue) : announceQueue[i] = t

\* C9: an announce goroutine reports a failed doAnnounce as
\* announceFailureEvent and a successful one as announceResponseEvent, one
\* event per announce; applying a response starts one dial for every returned
\* peer that is not connected for the torrent and for no other; applying a
\* failure starts no dial and changes neither the announce queue nor the
\* ticker loop, which exits on the done signal only; every announced torrent
\* stays in the announce queue, and every announce tick applied starts an
\* announce for every queued torrent and keeps it queued.
C9_AnnounceCycle ==
  /\ [](/\ \A i \in 1..Len(events) :
             /\ events[i].type = "announceResponse" => ~events[i].failed
             /\ events[i].type = "announceFailure" => events[i].failed
             /\ events[i].type \in {"announceResponse", "announceFailure"} =>
                  Queued(events[i].t)
        /\ \A t \in Torrents : announcing[t] > 0 => Queued(t))
  /\ [][/\ \A t \in Torrents :
             (announcing'[t] < announcing[t] /\ SendOK) =>
               /\ announcing'[t] = announcing[t] - 1
               /\ Len(events') = Len(events) + 1
               /\ events'[Len(events')].type \in {"announceResponse", "announceFailure"}
               /\ events'[Len(events')].t = t
        /\ Applies("announceResponse") =>
             LET t == Head(events).t
                 due == {p \in Head(events).peers : ~Connected(p, t)}
                 new == (Len(conns) + 1)..Len(conns')
             IN /\ Len(conns') = Len(conns) + Cardinality(due)
                /\ \A c \in ConnIds : conns'[c] = conns[c]
                /\ \A p \in due : \E c \in new : conns'[c].peer = p
                /\ \A c \in new : /\ conns'[c].peer \in due
                                  /\ conns'[c].t = t
                                  /\ conns'[c].dir = "out"
                                  /\ conns'[c].st = "dialing"
        /\ Applies("announceFailure") =>
             /\ conns' = conns
             /\ announceQueue' = announceQueue
             /\ tickerPc' = tickerPc
        /\ Applies("announceTick") =>
             \A t \in Torrents :
               /\ Queued(t) => announcing'[t] = announcing[t] + 1
               /\ Queued(t) <=> \E i \in 1..Len(announceQueue') : announceQueue'[i] = t
        /\ tickerPc' # tickerPc => done /\ tickerPc' = "exited"]_vars

\* a dial started from a response is in flight, the failure of a later
\* announce of the same torrent is queued, and the ticker loop still runs
C9_Witness ==
  \E c \in ConnIds, i \in 1..Len(events) :
    /\ conns[c].st = "dialing"
    /\ events[i].type = "announceFailure"
    /\ events[i].t = conns[c].t
    /\ tickerPc = "running"

\* ---- C10 ---------------------------------------------------------------------------------
\* C10: once Stop() has returned, no active connection is open.  (The active
\* set never shrinks, so it holds every connection that ever was active.)
C10_ActiveClosedAfterStop ==
  StopReturned => \A c \in active : ~conns[c].open

\* Stop has returned and an outbound connection that was active is closed
C10_Witness ==
  /\ StopReturned
  /\ \E c \in active : conns[c].dir = "out" /\ ~conns[c].open

\* ---- C11 ---------------------------------------------------------------------------------
\* the step in which the event loop applies an event, whatever its type
LoopApplies ==
  /\ loopPc = "running"
  /\ ~loopStopped
  /\ events # <<>>
  /\ events' = Tail(events)

\* the step in which a Stop caller ranges over connState.ActiveConns() or over
\* torrentControls
StopReadsState ==
  \E s \in Stoppers : stopPc[s] \in {"closeConns", "notify"} /\ stopPc'[s] # stopPc[s]

LookupFailed(a) == \E i \in 1..Len(adds[a].errc) : adds[a].errc[i] = ErrArchive

\* C12: a call whose archive lookup failed has returned with the lookup error
\* as the one and only value of its channel, at any time, also after Stop();
\* no newTorrentEvent carries its channel and no control holds it as pending;
\* the step of the call leaves the controls, the connection state, the
\* announce queue and the event queue as they were.
C12_LookupErrorOnly ==
  /\ [](\A a \in AddIds : LookupFailed(a) =>
          /\ adds[a].errc = <<ErrArchive>>
          /\ adds[a].pc = "returned"
          /\ ~Registered(a)
          /\ \A i \in 1..Len(events) :
               events[i].type = "newTorrent" => events[i].errc # a)
  /\ [][(Len(adds') > Len(adds) /\ adds'[Len(adds')].errc = <<ErrArchive>>) =>
          /\ stateVars' = stateVars
          /\ events' = events
          /\ conns' = conns]_vars

\* Stop() has returned and notified a registered call, and a call for the same
\* torrent whose lookup failed still holds the lookup error alone
C12_Witness ==
  /\ StopReturned
  /\ \E a, b \in AddIds :
       /\ adds[a].errc = <<ErrArchive>>
       /\ adds[b].errc = <<ErrSchedulerStopped>>
       /\ Registered(b)
       /\ adds[a].t = adds[b].t

\* ---- C13 ---------------------------------------------------------------------------------
Outbound == {c \in ConnIds : conns[c].dir = "out"}

\* C13: every outgoingConnEvent that is applied targets a torrent with a
\* control, so addOutgoingConn never takes its missing-control return: only
\* torrents with a control are queued for announcing, announced, answered by
\* an announce event or dialed for, and no control is ever removed.
C13_OutgoingHasControl ==
  /\ [](/\ \A t \in Torrents :
             (Queued(t) \/ announcing[t] > 0) => torrentControls[t].present
        /\ \A i \in 1..Len(events) :
             events[i].type \in {"announceResponse", "announceFailure", "outgoingConn"}
               => torrentControls[events[i].t].present
        /\ \A c \in Outbound : torrentControls[conns[c].t].present)
  /\ [][Applies("outgoingConn") => torrentControls[Head(events).t].present]_vars

\* an outgoingConnEvent was applied, its connection is active and with the
\* dispatcher of its torrent's control
C13_Witness ==
  \E c \in Outbound :
    /\ Processed(c)
    /\ c \in active
    /\ c \in dispatched
    /\ torrentControls[conns[c].t].present

\* ---- C14 ---------------------------------------------------------------------------------
\* the step in which the event loop admits an inbound connection for t
AdmitsInbound(t) ==
  /\ Applies("incomingConn")
  /\ Head(events).t = t
  /\ CanMoveToActive(Head(events).c)

\* C14: torrentControls only grows.  A control, once present, stays as it is
\* in every step (never removed, never replaced by a fresh one, also when an
\* inbound connection for its torrent is admitted); a control appears only in
\* the step that applies a newTorrentEvent for its torrent or admits an
\* inbound connection for it; each info hash has at most one control.
C14_ControlsOnlyGrow ==
  [][\A t \in Torrents :
       /\ torrentControls[t].present => torrentControls'[t] = torrentControls[t]
       /\ (~torrentControls[t].present /\ torrentControls'[t].present) =>
            \/ Applies("newTorrent") /\ Head(events).t = t
            \/ AdmitsInbound(t)
       /\ (AdmitsInbound(t) \/ (Applies("newTorrent") /\ Head(events).t = t)) =>
            torrentControls'[t].present]_vars

\* an inbound connection was admitted for a torrent that a local request had
\* registered before: the control still holds the request's pending channel
C14_Witness ==
  \E c \in Inbound :
    /\ c \in active
    /\ torrentControls[conns[c].t].present
    /\ torrentControls[conns[c].t].Errors # <<>>

\* ---- C15 ---------------------------------------------------------------------------------
\* the step in which the event loop applies an incomingConnEvent or an
\* outgoingConnEvent whose connection MovePendingToActive refuses
RejectsConn ==
  /\ Applies("incomingConn") \/ Applies("outgoingConn")
  /\ ~CanMoveToActive(Head(events).c)

\* C15: when MovePendingToActive fails for an incomingConnEvent or an
\* outgoingConnEvent, the connection is closed in that step, the active set,
\* the dispatchers' connections and torrentControls stay as they were (no
\* control is created for an unseen torrent), and nothing is retried: no
\* event is queued, no connection is dialed, no announce is started.
C15_RejectedConnClosed ==
  [][RejectsConn =>
       /\ ~conns'[Head(events).c].open
       /\ active' = active
       /\ dispatched' = dispatched
       /\ torrentControls' = torrentControls
       /\ announceQueue' = announceQueue
       /\ blacklist' = blacklist
       /\ Len(conns') = Len(conns)
       /\ announcing' = announcing]_vars

\* a refused inbound connection, closed and not active, whose torrent still
\* has no control
C15_Witness ==
  \E c \in Inbound :
    /\ Processed(c)
    /\ c \notin active
    /\ ~conns[c].open
    /\ ~torrentControls[conns[c].t].present

\* a refused outbound connection, closed and not active
C15_WitnessOutbound ==
  \E c \in Outbound :
    /\ Processed(c)
    /\ c \notin active
    /\ ~conns[c].open

\* ---- C16 ---------------------------------------------------------------------------------
\* the step in which the worker of connection c (initIncomingConn for an
\* inbound one, initOutgoingConn for an outbound one) finishes
WorkerDone(c) ==
  /\ conns[c].st \in {"initing", "dialing"}
  /\ conns'[c].st \in {"sent", "failed"}

\* the step in which an announce worker of torrent t finishes
AnnounceDone(t) == announcing'[t] = announcing[t] - 1

\* the event queue grows by exactly one event in the step
SendsOne == Len(events') = Len(events) + 1 /\ SubSeq(events', 1, Len(events)) = events

Sent == events'[Len(events')]

\* C16: a worker that finishes hands exactly one completion event to the event
\* loop (which queues it unless it has been stopped): initIncomingConn and
\* initOutgoingConn the success event carrying the connection and its torrent
\* if and only if the initialisation succeeded, else a failedHandshakeEvent
\* with the peer and the info hash; announce an announceResponseEvent if and
\* only if the announce succeeded, else an announceFailureEvent.
C16_OneCompletionEvent ==
  [][/\ \A c \in ConnIds : WorkerDone(c) =>
          IF ~SendOK THEN events' = events
          ELSE /\ SendsOne
               /\ IF conns'[c].st = "sent"
                    THEN /\ Sent.type = (IF conns[c].dir = "in" THEN "incomingConn"
                                         ELSE "outgoingConn")
                         /\ Sent.c = c
                         /\ Sent.t = conns[c].t
                    ELSE /\ Sent.type = "failedHandshake"
                         /\ Sent.peer = conns[c].peer
                         /\ Sent.t = conns[c].t
     /\ \A t \in Torrents : AnnounceDone(t) =>
          IF ~SendOK THEN events' = events
          ELSE /\ SendsOne
               /\ Sent.t = t
               /\ Sent.type = (IF Sent.failed THEN "announceFailure" ELSE "announceResponse")]_vars

\* the queue holds the success event of one inbound worker and the failure
\* event of another
C16_Witness ==
  \E i, j \in 1..Len(events) :
    /\ events[i].type = "incomingConn"
    /\ conns[events[i].c].st = "sent"
    /\ events[j].type = "failedHandshake"
    /\ events[j].conn # 0
    /\ conns[events[j].conn].st = "failed"
    /\ conns[events[j].conn].dir = "in"

\* ---- C17 ---------------------------------------------------------------------------------
Exited == {l \in {"loop", "listen", "ticker"} :
             \/ l = "loop" /\ loopPc = "exited"
             \/ l = "listen" /\ listenPc = "exited"
             \/ l = "ticker" /\ tickerPc = "exited"}

\* C17: Stop() terminates.  Each of the three loops calls wg.Done exactly once,
\* when it exits (the counter is the number of loops still running, never
\* below zero); once a caller has entered Stop(), the three loops eventually
\* exit, wg.Wait() returns and the caller returns, whatever events, ticks or
\* accepts are in flight.
C17_StopTerminates ==
  /\ [](wg = NumLoops - Cardinality(Exited))
  /\ \A s \in Stoppers :
       (stopPc[s] # "idle") ~> (stopPc[s] = "returned" /\ wg = 0 /\ LoopsExited)

\* Stop() has returned while events are left in the queue and a handshake
\* worker is still running
C17_Witness ==
  /\ \A s \in Stoppers : stopPc[s] = "returned"
  /\ wg = 0
  /\ events # <<>>
  /\ \E c \in ConnIds : conns[c].st = "handshaking"

\* ---- C18 ---------------------------------------------------------------------------------
\* C18: a call answered with ErrTorrentAlreadyRegistered was preceded by a
\* registered call for the same info hash: a first local request is never
\* answered with the conflict, also when an inbound connection created the
\* torrent's control before.
C18_ConflictOnlyAfterRegistered ==
  \A a \in AddIds :
    Conflicted(a) => \E b \in AddIds \ {a} : adds[b].t = adds[a].t /\ Registered(b)

\* ---- C19 ---------------------------------------------------------------------------------
\* C19: every active connection has been accepted by the dispatcher of its
\* torrent, and a connection for which addIncomingConn or addOutgoingConn
\* returned an error (so that no dispatcher has it) is closed and not active.
C19_ActiveIffDispatched ==
  \A c \in ConnIds :
    Processed(c) => IF c \in dispatched THEN c \in active
                    ELSE c \notin active /\ ~conns[c].open

\* ---- C20 ---------------------------------------------------------------------------------
\* a handshake, initialisation or dial goroutine is still running
WorkersRunning == \E c \in ConnIds : conns[c].st \in {"handshaking", "initing", "dialing"}

\* C20: once Stop() has returned and every worker has finished, no connection
\* is open: also a connection whose event was refused by Send or was left in
\* the queue of the stopped loop has been closed.
C20_NoConnLeaked ==
  (StopReturned /\ ~WorkersRunning) => \A c \in ConnIds : ~conns[c].open

====
